---- MODULE Spec2Model ----
(***************************************************************************)
(* Multi-worker knowledge distillation (packages/training/src/lambda/      *)
(* distill_lambda.py).  Every worker is one operating-system process       *)
(* running distill(); the workers meet in the collectives of the process   *)
(* group: the DistributedDataParallel constructor, the gradient all-reduce *)
(* of every backward pass and the end-of-epoch dist.barrier().             *)
(***************************************************************************)
EXTENDS Integers, Sequences, FiniteSets, TLC

\* ------------------------------------------------------------------ bounds
MaxWorld == 2       \* largest WORLD_SIZE explored
MaxEpochs == 2      \* largest num_epochs explored
MaxData == 2        \* largest len(train_data) explored by the training runs
MaxLoss == 1        \* per-step losses are 0..MaxLoss (and the non-finite ones)
MaxVocab == 2       \* vocabulary sizes are 1..MaxVocab
MaxShardData == 3   \* largest dataset handed to the sampler on its own
MaxBatch == 2       \* largest batch_size handed to the data loader on its own
MaxText == 1        \* most tokens in a record's text
MaxIr == 2          \* most tokens in a record's ir
MaxLines == 3       \* most lines in a dataset file
MaxSeq == 5         \* largest max_seq_length explored
AlphaDen == 2       \* alpha ranges over 0, 1/AlphaDen, ..., 1

\* ------------------------------------------------------------- arithmetic
Max2(a, b) == IF a >= b THEN a ELSE b

\* Python's max() over the four sizes (line 197).
Max4(a, b, c, d) == Max2(Max2(a, b), Max2(c, d))

\* math.ceil(a / b) for a >= 0, b > 0.
CeilDiv(a, b) == (a + b - 1) \div b

\* The set of the elements of a sequence.
Range(s) == {s[i] : i \in 1..Len(s)}

\* --------------------------------------------------------- float values
\* A Python float that is a loss: a non-negative rational n/d (d > 0),
\* +inf (d = 0, n = 1) or NaN (d = 0, n = 0).
Fin(k) == [n |-> k, d |-> 1]
FInf == [n |-> 1, d |-> 0]
FNaN == [n |-> 0, d |-> 0]
IsFinite(x) == x.d > 0
IsNaN(x) == x.d = 0 /\ x.n = 0

\* x < y on floats: every comparison with NaN is False, inf < inf is False.
FLt(x, y) == x.n * y.d < y.n * x.d

\* x + y on floats (epoch_loss += loss.item()).
FAdd(x, y) ==
    IF IsNaN(x) \/ IsNaN(y) THEN FNaN
    ELSE IF ~IsFinite(x) \/ ~IsFinite(y) THEN FInf
    ELSE [n |-> x.n * y.d + y.n * x.d, d |-> x.d * y.d]

\* x * y on floats: 0 * inf is NaN.
FMul(x, y) ==
    IF IsNaN(x) \/ IsNaN(y) THEN FNaN
    ELSE IF ~IsFinite(x) \/ ~IsFinite(y)
         THEN (IF (IsFinite(x) /\ x.n = 0) \/ (IsFinite(y) /\ y.n = 0) THEN FNaN ELSE FInf)
    ELSE [n |-> x.n * y.n, d |-> x.d * y.d]

\* 1 - a for a finite a in [0, 1].
OneMinus(a) == [n |-> a.d - a.n, d |-> a.d]

\* x / k for an int k > 0 (epoch_loss / len(dataloader)).
FDivInt(x, k) == IF IsFinite(x) THEN [n |-> x.n, d |-> x.d * k] ELSE x

\* ----------------------------------------------------------- data loading
\* All orders torch.randperm(n) can return, as sequences over 0..n-1.
Perms(n) ==
    {p \in [1..n -> 0..(n - 1)] : \A i, j \in 1..n : p[i] = p[j] => i = j}

\* DistributedSampler.num_samples with drop_last=False: ceil(n / replicas).
SamplerNumSamples(n, replicas) == CeilDiv(n, replicas)

\* The permutation padded to total_size = num_samples * replicas by repeating
\* it from its start (DistributedSampler.__iter__, drop_last=False).
SamplerPadded(perm, replicas) ==
    LET n == Len(perm)
        total == SamplerNumSamples(n, replicas) * replicas
    IN  [i \in 1..total |-> perm[((i - 1) % n) + 1]]

\* Mutant: no padding, the plain permutation is dealt out.
SamplerIndicesUnpadded(perm, replicas, r) ==
    LET cnt == IF Len(perm) > r THEN CeilDiv(Len(perm) - r, replicas) ELSE 0
    IN  [k \in 1..cnt |-> perm[r + (k - 1) * replicas + 1]]

\* Mutant: the stride starts one place late, indices[rank + 1 :: replicas].
SamplerIndicesShifted(perm, replicas, r) ==
    LET padded == SamplerPadded(perm, replicas)
        cnt == IF Len(padded) > r + 1
               THEN CeilDiv(Len(padded) - r - 1, replicas) ELSE 0
    IN  [k \in 1..cnt |-> padded[r + 1 + (k - 1) * replicas + 1]]

\* The indices of one rank for one epoch: indices[rank : total_size : replicas]
\* of the padded permutation.
SamplerIndices(perm, replicas, r) ==
    LET padded == SamplerPadded(perm, replicas)
    IN  [k \in 1..SamplerNumSamples(Len(perm), replicas) |->
            padded[r + (k - 1) * replicas + 1]]

\* len(dataloader) with drop_last=False: ceil(len(sampler) / batch_size).
DataLoaderLen(samples, bs) == CeilDiv(samples, bs)

\* ------------------------------------------------------------------ state
VARIABLES
    environ,         \* the names among RANK, LOCAL_RANK, WORLD_SIZE set in os.environ
    num_gpus,        \* the accelerators visible to every worker
    world_size,      \* WORLD_SIZE, 1 when the environment sets none
    num_epochs,      \* num_epochs
    batch_size,      \* batch_size
    dataset_len,     \* len(train_data) after the max_samples cap
    vocab,           \* the four sizes read at lines 188-191
    pc,              \* per worker: the place in distill()
    group,           \* per worker: the process group as the worker sees it
    teacher_emb,     \* per worker: rows of the teacher's embedding table
    student_emb,     \* per worker: rows of the student's embedding table
    target_vocab,    \* per worker: target_vocab (0 before line 197)
    events,          \* per worker: placements, resizes, their log lines, wrapping, in order
    steps_per_epoch, \* per worker: len(dataloader)
    epoch,           \* per worker: the loop variable epoch
    batch,           \* per worker: batches of the current epoch already done
    global_step,     \* per worker: global_step
    epoch_loss,      \* per worker: epoch_loss
    best_loss,       \* per worker: best_loss
    arrived,         \* per worker: collectives entered so far
    barrier_calls,   \* per worker: dist.barrier() calls entered so far
    opt_steps,       \* per worker: optimizer.step() calls made so far
    writes,          \* save_pretrained calls on the shared filesystem, in order
    randperm,        \* the sampler's permutation for the epoch under way
    sampler_epoch,   \* per worker: the epoch last handed to its sampler.set_epoch
    generator,       \* torch.randperm as a function of the generator's seed
    shard,           \* per rank: the indices the sampler yielded this epoch
    ctx,             \* per worker: rank, local_rank, world_size and the devices
    error,           \* per worker: the exception that left distill(), if any
    tokenizer,       \* per worker: the tokenizer chosen at line 217
    step_ops,        \* per worker: the operations of the step under way, in order
    sched_steps,     \* per worker: scheduler.step() calls made so far
    schedule,        \* per worker: what the scheduler was built with (lines 277-287)
    params,          \* per worker: how often each model's parameters were updated
    summaries,       \* per worker: the epochs whose summary line it has printed
    max_seq_length,  \* max_seq_length
    alpha,           \* alpha, the weight of the distillation loss
    example,         \* the record handed to tokenize_example
    tokenized,       \* what tokenize_example returned for it
    step_loss,       \* the losses of the step made on that example
    file,            \* the lines of the dataset file
    loaded,          \* load_jsonl: lines read, records kept, how it ended
    modal            \* the run of modal/distill.py

cfgVars == <<environ, num_gpus, world_size, num_epochs, batch_size, dataset_len, vocab>>
modelVars == <<teacher_emb, student_emb, target_vocab, events>>
loopVars == <<steps_per_epoch, epoch, batch, global_step, epoch_loss, best_loss>>
syncVars == <<pc, group, arrived, barrier_calls>>
samplerVars == <<randperm, sampler_epoch, shard, generator>>
ctxVars == <<ctx, error, tokenizer>>
stepLocals == <<step_ops, schedule, params>>
trainVars == <<stepLocals, sched_steps, summaries>>
exampleVars == <<max_seq_length, alpha, example, tokenized, step_loss>>
fileVars == <<file, loaded>>
sideVars == <<exampleVars, fileVars, modal>>
vars == <<cfgVars, modelVars, loopVars, syncVars, opt_steps, writes, samplerVars,
          ctxVars, trainVars, sideVars>>

\* "RANK" in os.environ (line 46).
distributed == "RANK" \in environ

\* The workers of the run; a worker's rank (and, on one node, its local_rank)
\* is its number.
Ranks == 0..(world_size - 1)

\* Mutant: every worker takes itself for the main one.
IsMainAlways(w) == TRUE

\* is_main = rank == 0 (line 100).
IsMain(w) == w = 0

\* The values a step's combined loss can take on the main worker, whose
\* running sum decides the checkpoints.
StepLosses == {Fin(k) : k \in 0..MaxLoss} \cup {FInf, FNaN}

\* The values loss.item() can give worker w.  The running sums of a worker
\* other than the main one are written (lines 341-343) and never read by
\* anything that acts (lines 382-395 are the main worker's): two values
\* stand for them.
StepLossesOf(w) == IF IsMain(w) THEN StepLosses ELSE {Fin(0), Fin(1)}

\* The three names setup_distributed() looks up (lines 46-49).
EnvNames == {"RANK", "LOCAL_RANK", "WORLD_SIZE"}

\* The accelerators a run of world_size workers addresses: two per worker
\* (lines 142-143), device 0 for a single worker (line 147).
NeededGpus == IF world_size > 1 THEN 2 * world_size ELSE 1

\* The environments a run can start in: torchrun sets the three names and
\* starts world_size processes, plain python sets none and is one process
\* (line 53), on a machine with the accelerators the run addresses.
Environments ==
    /\ environ \in {EnvNames, {}}
    /\ world_size \in (IF distributed THEN 1..MaxWorld ELSE {1})
    /\ num_gpus = NeededGpus

\* Every environment, those with only some of the three names included.
AnyEnvironment ==
    /\ environ \in SUBSET EnvNames
    /\ world_size \in (IF distributed THEN 1..MaxWorld ELSE {1})
    /\ num_gpus = NeededGpus

\* Every combination of the four sizes.
AllVocabs ==
    [teacher_tok : 1..MaxVocab, student_tok : 1..MaxVocab,
     teacher_model : 1..MaxVocab, student_model : 1..MaxVocab]

\* The shape of the sizes of the default models: cad0 and Qwen2.5-0.5B share
\* one tokenizer, the teacher's table is the largest of the four and the
\* student's is smaller (lines 79-80).
DefaultVocab ==
    [teacher_tok |-> 1, student_tok |-> 1, teacher_model |-> 3, student_model |-> 2]

\* A worker's identity and devices before setup_distributed() has returned.
NoCtx ==
    [rank |-> -1, local_rank |-> -1, world_size |-> -1,
     student_gpu |-> -1, teacher_device |-> -1, current_device |-> -1]

\* tokenize_example not called yet.
NoTokens ==
    [input_ids |-> << >>, attention_mask |-> << >>, labels |-> << >>, prompt_len |-> -1]

\* No step made yet.
NoStep ==
    [computed |-> FALSE, kl_evaluated |-> FALSE,
     distill_loss |-> Fin(0), task_loss |-> Fin(0), loss |-> Fin(0)]

\* No example is being tokenized.
NoExample ==
    /\ max_seq_length = 0
    /\ alpha = Fin(0)
    /\ example = [text |-> << >>, ir |-> << >>]
    /\ tokenized = NoTokens
    /\ step_loss = NoStep

\* No file is being read.
NoFile ==
    /\ file = << >>
    /\ loaded = [pos |-> 0, data |-> 0, status |-> "closed"]

\* modal/distill.py is not running.
ModalOff ==
    [pc |-> "off", teacher_logits |-> 0, student_logits |-> 0,
     steps_per_epoch |-> 0, epoch |-> 0, batch |-> 0, global_step |-> 0,
     error |-> "none", saved |-> << >>]

\* distill_lambda.py on its own.
NoSide ==
    /\ NoExample
    /\ NoFile
    /\ modal = ModalOff

\* No scheduler built yet.
NoSchedule == [total_steps |-> -1, num_warmup_steps |-> -1]

\* The parameters of the two models as from_pretrained gives them: updated
\* by no optimizer step.
LoadedParams == [teacher |-> 0, student |-> 0]

\* No permutation is drawn from a seeded generator.
NoGenerator == << >>

\* Every worker at the entry of distill().
Fresh ==
    /\ ctx = [w \in Ranks |-> NoCtx]
    /\ error = [w \in Ranks |-> "none"]
    /\ tokenizer = [w \in Ranks |-> "none"]
    /\ step_ops = [w \in Ranks |-> << >>]
    /\ sched_steps = [w \in Ranks |-> 0]
    /\ schedule = [w \in Ranks |-> NoSchedule]
    /\ params = [w \in Ranks |-> LoadedParams]
    /\ summaries = [w \in Ranks |-> << >>]
    /\ pc = [w \in Ranks |-> "start"]
    /\ group = [w \in Ranks |-> "none"]
    /\ teacher_emb = [w \in Ranks |-> 0]
    /\ student_emb = [w \in Ranks |-> 0]
    /\ target_vocab = [w \in Ranks |-> 0]
    /\ events = [w \in Ranks |-> << >>]
    /\ steps_per_epoch = [w \in Ranks |-> 0]
    /\ epoch = [w \in Ranks |-> 0]
    /\ batch = [w \in Ranks |-> 0]
    /\ global_step = [w \in Ranks |-> 0]
    /\ epoch_loss = [w \in Ranks |-> Fin(0)]
    /\ best_loss = [w \in Ranks |-> FInf]
    /\ arrived = [w \in Ranks |-> 0]
    /\ barrier_calls = [w \in Ranks |-> 0]
    /\ opt_steps = [w \in Ranks |-> 0]
    /\ writes = << >>
    /\ sampler_epoch = [w \in Ranks |-> 0]
    /\ shard = [w \in {} |-> << >>]

\* The training runs: every environment, epoch count and dataset size, one
\* example per batch, the default models.
Init ==
    /\ AnyEnvironment
    /\ num_epochs \in 1..MaxEpochs
    /\ batch_size = 1
    /\ dataset_len \in 0..MaxData
    /\ vocab = DefaultVocab
    /\ Fresh
    /\ NoSide
    /\ randperm = << >>
    /\ generator = NoGenerator

\* ------------------------------------------------------------ collectives
\* The places where a worker waits inside a collective operation.
CollectivePcs == {"wrap_ddp", "backward", "barrier"}

\* Mutant: a collective waits for the main worker only.
AllArrivedMainOnly(w) == arrived[0] >= arrived[w]

\* Every worker of the group has entered the collective w is waiting in.
AllArrived(w) == \A v \in Ranks : arrived[v] >= arrived[w]

\* Worker w moves on to place p, entering a collective when p is one.
Goto(w, p) ==
    /\ pc' = [pc EXCEPT ![w] = p]
    /\ arrived' = IF world_size > 1 /\ p \in CollectivePcs
                  THEN [arrived EXCEPT ![w] = @ + 1] ELSE arrived
    /\ barrier_calls' = IF world_size > 1 /\ p = "barrier"
                        THEN [barrier_calls EXCEPT ![w] = @ + 1]
                        ELSE barrier_calls

\* The locals of distill() of worker w die with its frame.
Unwind(w) ==
    /\ teacher_emb' = [teacher_emb EXCEPT ![w] = 0]
    /\ student_emb' = [student_emb EXCEPT ![w] = 0]
    /\ target_vocab' = [target_vocab EXCEPT ![w] = 0]
    /\ steps_per_epoch' = [steps_per_epoch EXCEPT ![w] = 0]
    /\ epoch' = [epoch EXCEPT ![w] = 0]
    /\ batch' = [batch EXCEPT ![w] = 0]
    /\ global_step' = [global_step EXCEPT ![w] = 0]
    /\ epoch_loss' = [epoch_loss EXCEPT ![w] = Fin(0)]
    /\ best_loss' = [best_loss EXCEPT ![w] = FInf]
    /\ ctx' = [ctx EXCEPT ![w] = NoCtx]
    /\ tokenizer' = [tokenizer EXCEPT ![w] = "none"]
    /\ step_ops' = [step_ops EXCEPT ![w] = << >>]
    /\ schedule' = [schedule EXCEPT ![w] = NoSchedule]
    /\ params' = [params EXCEPT ![w] = LoadedParams]

\* Worker w leaves distill() on exception e.
Fail(w, e) ==
    /\ Unwind(w)
    /\ error' = [error EXCEPT ![w] = e]
    /\ Goto(w, "raised")

\* ----------------------------------------------------------------- set-up
\* The outcomes of a call of worker w to the metrics sink (wandb.init,
\* wandb.log, wandb.finish): it returns (TRUE) or it raises (FALSE).  Only
\* the main worker calls the sink (lines 109, 353, 385, 407), use_wandb
\* being left at its default.
SinkOutcomes(w) == IF IsMain(w) THEN BOOLEAN ELSE {TRUE}

\* Mutant: a lookup fails as soon as one of the three names is not set.
LookupFailsAnyMissing == environ # EnvNames

\* Whether a lookup of setup_distributed() raises KeyError: only with RANK
\* set are LOCAL_RANK and WORLD_SIZE looked up (lines 46-49).
LookupFails == distributed /\ ~({"LOCAL_RANK", "WORLD_SIZE"} \subseteq environ)

\* setup_distributed() and the start of distill() (lines 44-53, 99-129).
\* os.environ[name] raises KeyError for a name that is not set: with RANK
\* set, lines 48-49 read LOCAL_RANK and WORLD_SIZE before the group is
\* initialised at line 50; torch.cuda.set_device(local_rank) (line 51) fails
\* on an ordinal the machine does not have, the group being initialised by
\* then.  The main worker then calls wandb.init (lines 109-127), and what
\* that raises leaves distill() as every exception does.
SetupDistributed(w) ==
    /\ pc[w] = "start"
    /\ IF LookupFails
       THEN /\ Fail(w, "KeyError")
            /\ UNCHANGED group
       ELSE IF distributed /\ w >= num_gpus
       THEN /\ Fail(w, "DeviceError")
            /\ group' = [group EXCEPT ![w] = "initialized"]
       ELSE /\ group' = [group EXCEPT ![w] = IF distributed THEN "initialized" ELSE "none"]
            /\ \E ok \in SinkOutcomes(w) :
                  IF ok
                  THEN /\ ctx' = [ctx EXCEPT ![w] =
                                     IF distributed
                                     THEN [NoCtx EXCEPT !.rank = w, !.local_rank = w,
                                                        !.world_size = world_size,
                                                        !.current_device = w]
                                     ELSE [NoCtx EXCEPT !.rank = 0, !.local_rank = 0,
                                                        !.world_size = 1,
                                                        !.current_device = 0]]
                       /\ Goto(w, "load_models")
                       /\ UNCHANGED <<modelVars, loopVars, error, tokenizer, stepLocals>>
                  ELSE Fail(w, "SinkError")
    /\ UNCHANGED <<cfgVars, sched_steps, summaries, sideVars, events, writes, samplerVars, opt_steps>>

\* Mutant: both models of a worker go to the worker's even device.
TeacherDevicesShared(w) ==
    IF ctx[w].world_size > 1 THEN {ctx[w].local_rank * 2} ELSE 0..(num_gpus - 1)

\* The devices next(teacher.parameters()).device can name (lines 141-160):
\* cuda:(local_rank * 2 + 1) with several workers; with one worker the
\* teacher is laid out by device_map="auto" and its first parameter is on
\* whichever visible device the layout gave it.
TeacherDevices(w) ==
    IF ctx[w].world_size > 1 THEN {ctx[w].local_rank * 2 + 1} ELSE 0..(num_gpus - 1)

\* Mutant: the student goes to the worker's current device, cuda:local_rank.
StudentGpuLocalRank(w) == IF ctx[w].world_size > 1 THEN ctx[w].local_rank ELSE 0

\* student_gpu (lines 143, 147).
StudentGpu(w) == IF ctx[w].world_size > 1 THEN ctx[w].local_rank * 2 ELSE 0

\* Mutant: the student goes to the device as soon as it is loaded, as in
\* modal/distill.py.
LoadModelsStudentOnDevice(w) ==
    /\ pc[w] = "load_models"
    /\ IF \E d \in TeacherDevices(w) : d >= num_gpus
       THEN /\ Fail(w, "DeviceError")
            /\ UNCHANGED events
       ELSE /\ \E d \in TeacherDevices(w) :
                  ctx' = [ctx EXCEPT ![w].teacher_device = d,
                                     ![w].student_gpu = StudentGpu(w)]
            /\ teacher_emb' = [teacher_emb EXCEPT ![w] = vocab.teacher_model]
            /\ student_emb' = [student_emb EXCEPT ![w] = vocab.student_model]
            /\ events' = [events EXCEPT ![w] = @ \o <<"place_teacher", "place_student">>]
            /\ Goto(w, "reconcile")
            /\ UNCHANGED <<target_vocab, loopVars, error, tokenizer, stepLocals>>
    /\ UNCHANGED <<cfgVars, sched_steps, summaries, sideVars, group, writes, samplerVars, opt_steps>>

\* Both models are loaded: the teacher straight onto its device by
\* device_map, which fails on a device the machine does not have; the
\* student on the host (lines 131-185).
LoadModels(w) ==
    /\ pc[w] = "load_models"
    /\ IF \E d \in TeacherDevices(w) : d >= num_gpus
       THEN /\ Fail(w, "DeviceError")
            /\ UNCHANGED events
       ELSE /\ \E d \in TeacherDevices(w) :
                  ctx' = [ctx EXCEPT ![w].teacher_device = d,
                                     ![w].student_gpu = StudentGpu(w)]
            /\ teacher_emb' = [teacher_emb EXCEPT ![w] = vocab.teacher_model]
            /\ student_emb' = [student_emb EXCEPT ![w] = vocab.student_model]
            /\ events' = [events EXCEPT ![w] = Append(@, "place_teacher")]
            /\ Goto(w, "reconcile")
            /\ UNCHANGED <<target_vocab, loopVars, error, tokenizer, stepLocals>>
    /\ UNCHANGED <<cfgVars, sched_steps, summaries, sideVars, group, writes, samplerVars, opt_steps>>

\* Mutant: the model vocabularies are left out of the maximum.
TargetVocabTokenizersOnly(v) == Max2(v.teacher_tok, v.student_tok)

\* target_vocab (line 197).
TargetVocab(v) == Max4(v.teacher_tok, v.student_tok, v.teacher_model, v.student_model)

\* Mutant: only the main worker resizes.
NeedsResizeMainOnly(w, model_vocab, target) == IsMain(w) /\ model_vocab # target

\* Whether worker w resizes a model's embeddings (lines 198, 202): the test
\* reads the sizes only, never the rank.
NeedsResize(w, model_vocab, target) == model_vocab # target

\* The vocabulary reconciliation (lines 187-205).
Reconcile(w) ==
    LET target == TargetVocab(vocab)
        rt == NeedsResize(w, vocab.teacher_model, target)
        rs == NeedsResize(w, vocab.student_model, target)
    IN  /\ pc[w] = "reconcile"
        /\ target_vocab' = [target_vocab EXCEPT ![w] = target]
        /\ teacher_emb' = [teacher_emb EXCEPT ![w] = IF rt THEN target ELSE @]
        /\ student_emb' = [student_emb EXCEPT ![w] = IF rs THEN target ELSE @]
        /\ events' = [events EXCEPT ![w] =
                (@ \o <<"reconcile">>)
                   \o (IF rt /\ IsMain(w) THEN <<"log_resize_teacher">> ELSE << >>)
                   \o (IF rt THEN <<"resize_teacher">> ELSE << >>)
                   \o (IF rs /\ IsMain(w) THEN <<"log_resize_student">> ELSE << >>)
                   \o (IF rs THEN <<"resize_student">> ELSE << >>)]
        /\ Goto(w, "place_student")
        /\ UNCHANGED <<cfgVars, ctxVars, trainVars, sideVars, loopVars, group, writes, samplerVars, opt_steps>>

\* student.to(cuda:student_gpu), then on to the DDP constructor (lines 208-212).
PlaceStudent(w) ==
    /\ pc[w] = "place_student"
    /\ events' = [events EXCEPT ![w] = Append(@, "place_student")]
    /\ Goto(w, IF ctx[w].world_size > 1 THEN "wrap_ddp" ELSE "load_data")
    /\ UNCHANGED <<cfgVars, ctxVars, trainVars, sideVars, teacher_emb, student_emb, target_vocab, loopVars, group, writes, samplerVars, opt_steps>>

\* DDP(student): the constructor returns once every worker has entered it
\* (lines 211-213).
WrapDDP(w) ==
    /\ pc[w] = "wrap_ddp"
    /\ AllArrived(w)
    /\ events' = [events EXCEPT ![w] = Append(@, "wrap_student")]
    /\ Goto(w, "load_data")
    /\ UNCHANGED <<cfgVars, ctxVars, trainVars, sideVars, teacher_emb, student_emb, target_vocab, loopVars, group, writes, samplerVars, opt_steps>>

\* len(sampler): the rank's shard with a DistributedSampler, the whole
\* dataset without one (lines 266-275).
SamplerLen(w) ==
    IF world_size > 1 THEN SamplerNumSamples(dataset_len, world_size)
    ELSE dataset_len

\* Mutant: the student's tokenizer whatever the sizes, as in modal/distill.py.
TokenizerChoiceStudent(v) == "student"

\* tokenizer = teacher_tokenizer if teacher_tok_vocab >= student_tok_vocab
\* else student_tokenizer (line 217).
TokenizerChoice(v) == IF v.teacher_tok >= v.student_tok THEN "teacher" ELSE "student"

\* Mutant: the warmup is rounded up.
NumWarmupStepsCeil(total_steps) == (total_steps + 9) \div 10

\* num_warmup_steps = total_steps // 10 (line 284).
NumWarmupSteps(total_steps) == total_steps \div 10

\* The tokenizer choice, then data, sampler, loader, optimizer and scheduler
\* (lines 217-294).
\* DataLoader(batch_size=...) raises ValueError for a batch_size below 1.
LoadData(w) ==
    /\ pc[w] = "load_data"
    /\ IF batch_size < 1
       THEN Fail(w, "ValueError")
       ELSE LET steps == DataLoaderLen(SamplerLen(w), batch_size)
                total_steps == steps * num_epochs
            IN  /\ tokenizer' = [tokenizer EXCEPT ![w] = TokenizerChoice(vocab)]
                /\ steps_per_epoch' = [steps_per_epoch EXCEPT ![w] = steps]
                /\ schedule' = [schedule EXCEPT ![w] =
                                   [total_steps |-> total_steps,
                                    num_warmup_steps |-> NumWarmupSteps(total_steps)]]
                /\ Goto(w, "epoch_loop")
                /\ UNCHANGED <<ctx, error, modelVars, epoch, batch, global_step,
                               epoch_loss, best_loss, step_ops, params>>
    /\ UNCHANGED <<cfgVars, sched_steps, summaries, sideVars, events, group, writes,
                   samplerVars, opt_steps>>

\* ---------------------------------------------------------- training loop
\* Mutant: the loop stops one epoch short.
EpochsLeftOneShort(w) == epoch[w] + 1 < num_epochs

\* "for epoch in range(num_epochs)" has an epoch left for worker w (line 296).
EpochsLeft(w) == epoch[w] < num_epochs

\* The head of "for epoch in range(num_epochs)" with an epoch left: set_epoch
\* and the reset of the running sums (lines 296-305).
EpochBegin(w) ==
    /\ pc[w] = "epoch_loop"
    /\ EpochsLeft(w)
    /\ epoch_loss' = [epoch_loss EXCEPT ![w] = Fin(0)]
    /\ batch' = [batch EXCEPT ![w] = 0]
    /\ sampler_epoch' = IF world_size > 1
                        THEN [sampler_epoch EXCEPT ![w] = epoch[w]]
                        ELSE sampler_epoch
    /\ Goto(w, IF steps_per_epoch[w] > 0 THEN "forward" ELSE "summary")
    /\ UNCHANGED <<cfgVars, ctxVars, trainVars, sideVars, modelVars, steps_per_epoch, epoch, global_step,
                   best_loss, group, writes, randperm, shard, generator, opt_steps>>

\* The loop is exhausted: on to the final save, which only the main worker
\* does (lines 296, 401-402).
LoopExit(w) ==
    /\ pc[w] = "epoch_loop"
    /\ ~EpochsLeft(w)
    /\ Goto(w, IF IsMain(w) THEN "final_model" ELSE "cleanup")
    /\ UNCHANGED <<cfgVars, ctxVars, trainVars, sideVars, modelVars, loopVars, group, writes, samplerVars, opt_steps>>

\* The operations of a step up to the combined loss, in the order of lines
\* 314-333: the teacher's forward pass under torch.no_grad(), the student's,
\* the losses.
ForwardOps == <<"teacher_forward", "student_forward", "loss">>

\* Mutant: the gradients are clipped after the optimizer has stepped.
BackwardOpsClipLate ==
    <<"zero_grad", "backward", "optimizer_step", "clip_grad_norm", "scheduler_step">>

\* The rest of the step, in the order of lines 335-339.
BackwardOps ==
    <<"zero_grad", "backward", "clip_grad_norm", "optimizer_step", "scheduler_step">>

\* Mutant: the optimizer is given the parameters of both models.
StepUpdatesBoth == {"student", "teacher"}

\* The models whose parameters an optimizer step changes: the optimizer is
\* built over student.parameters() (line 283); the teacher's parameters have
\* requires_grad = False (lines 155-157) and its forward pass runs under
\* torch.no_grad() (line 314).
StepUpdates == {"student"}

\* global_step % 50 == 0 (line 353).
LogEvery == 50

\* Teacher forward, student forward and the combined loss of one batch
\* (lines 307-333); loss.backward() comes next.
Forward(w) ==
    /\ pc[w] = "forward"
    /\ step_ops' = [step_ops EXCEPT ![w] = ForwardOps]
    /\ Goto(w, "backward")
    /\ UNCHANGED <<cfgVars, ctxVars, schedule, params, sched_steps, summaries, sideVars,
                   modelVars, loopVars, group, writes, samplerVars, opt_steps>>

\* Backward (with the gradient all-reduce of DDP when world_size > 1), clip,
\* optimizer and scheduler step, then the running sums: loss.item() is read
\* here, whatever value the forward pass gave it (lines 335-375).  Every
\* LogEvery steps the main worker calls wandb.log (lines 353-367).
Backward(w) ==
    /\ pc[w] = "backward"
    /\ world_size > 1 => AllArrived(w)
    /\ opt_steps' = [opt_steps EXCEPT ![w] = @ + 1]
    /\ sched_steps' = [sched_steps EXCEPT ![w] = @ + 1]
    /\ \E ok \in (IF (global_step[w] + 1) % LogEvery = 0 THEN SinkOutcomes(w) ELSE {TRUE}) :
          IF ok
          THEN /\ \E l \in StepLossesOf(w) :
                      epoch_loss' = [epoch_loss EXCEPT ![w] = FAdd(@, l)]
               /\ global_step' = [global_step EXCEPT ![w] = @ + 1]
               /\ batch' = [batch EXCEPT ![w] = @ + 1]
               /\ step_ops' = [step_ops EXCEPT ![w] = @ \o BackwardOps]
               /\ params' = [params EXCEPT ![w] =
                                [m \in DOMAIN @ |-> IF m \in StepUpdates THEN @[m] + 1 ELSE @[m]]]
               /\ Goto(w, IF batch[w] + 1 < steps_per_epoch[w] THEN "forward" ELSE "summary")
               /\ UNCHANGED <<modelVars, steps_per_epoch, epoch, best_loss, ctxVars, schedule>>
          ELSE /\ Fail(w, "SinkError")
               /\ UNCHANGED events
    /\ UNCHANGED <<cfgVars, summaries, sideVars, group, writes, samplerVars>>

\* Mutant: a checkpoint is taken when the epoch is no worse than the best.
ImprovedOrEqual(avg, best) == ~FLt(best, avg)

\* avg_loss < best_loss (line 390).
Improved(avg, best) == FLt(avg, best)

\* Mutant: the running sums of all workers are reduced into one average.
AvgLossAllWorkers(w) ==
    LET sum[k \in 0..world_size] ==
            IF k = 0 THEN Fin(0) ELSE FAdd(sum[k - 1], epoch_loss[k - 1])
    IN  FDivInt(sum[world_size], steps_per_epoch[w] * world_size)

\* avg_loss = epoch_loss / len(dataloader) of the epoch worker w is in (line
\* 378), from w's own running sum, which stays until the next epoch resets it.
AvgLoss(w) == FDivInt(epoch_loss[w], steps_per_epoch[w])

\* The epoch summary and the checkpoint decision (lines 377-391).  Dividing
\* by len(dataloader) = 0 raises ZeroDivisionError.  The main worker prints
\* the summary line, then calls wandb.log (lines 382-387), then decides.
EpochSummary(w) ==
    /\ pc[w] = "summary"
    /\ IF steps_per_epoch[w] = 0
       THEN /\ Fail(w, "ZeroDivisionError")
            /\ UNCHANGED summaries
       ELSE LET avg_loss == AvgLoss(w)
            IN  /\ summaries' = [summaries EXCEPT ![w] =
                                    IF IsMain(w) THEN Append(@, epoch[w] + 1) ELSE @]
                /\ \E ok \in SinkOutcomes(w) :
                      IF ok
                      THEN /\ IF IsMain(w) /\ Improved(avg_loss, best_loss[w])
                              THEN /\ best_loss' = [best_loss EXCEPT ![w] = avg_loss]
                                   /\ Goto(w, "ckpt_model")
                              ELSE /\ UNCHANGED best_loss
                                   /\ Goto(w, "barrier")
                           /\ UNCHANGED <<teacher_emb, student_emb, target_vocab,
                                          steps_per_epoch, epoch, batch,
                                          global_step, epoch_loss, ctxVars, stepLocals>>
                      ELSE Fail(w, "SinkError")
    /\ UNCHANGED <<cfgVars, sched_steps, sideVars, events, group, writes, samplerVars, opt_steps>>

\* One save_pretrained call: who writes what into which directory
\* (dir 0 is output_dir itself, dir k is output_dir/epoch-k).
Write(w, d, what) ==
    [rank |-> w, dir |-> d, what |-> what, loss |-> best_loss[w],
     tok |-> IF what = "tokenizer" THEN tokenizer[w] ELSE "none",
     version |-> IF what = "model" THEN params[w].student ELSE 0]

\* Mutant: the checkpoint directories are numbered from 0.
CheckpointDirFromZero(w) == epoch[w]

\* The number N of the directory epoch-N a checkpoint of the epoch under way
\* goes to (line 392).
CheckpointDir(w) == epoch[w] + 1

\* student_module.save_pretrained(checkpoint_path) (lines 392-394).
SaveCheckpointModel(w) ==
    /\ pc[w] = "ckpt_model"
    /\ writes' = Append(writes, Write(w, CheckpointDir(w), "model"))
    /\ Goto(w, "ckpt_tokenizer")
    /\ UNCHANGED <<cfgVars, ctxVars, trainVars, sideVars, modelVars, loopVars, group, samplerVars, opt_steps>>

\* tokenizer.save_pretrained(checkpoint_path) (line 395).
SaveCheckpointTokenizer(w) ==
    /\ pc[w] = "ckpt_tokenizer"
    /\ writes' = Append(writes, Write(w, CheckpointDir(w), "tokenizer"))
    /\ Goto(w, "barrier")
    /\ UNCHANGED <<cfgVars, ctxVars, trainVars, sideVars, modelVars, loopVars, group, samplerVars, opt_steps>>

\* Mutant: the barrier returns at once.
BarrierOpenAlways(w) == TRUE

\* Whether worker w, at line 398, may go on: dist.barrier() returns once
\* every worker has entered it; a single worker calls no barrier.
BarrierOpen(w) == world_size > 1 => AllArrived(w)

\* The end of the loop body: "if world_size > 1: dist.barrier()" (lines 397-399).
EpochBarrier(w) ==
    /\ pc[w] = "barrier"
    /\ BarrierOpen(w)
    /\ epoch' = [epoch EXCEPT ![w] = @ + 1]
    /\ Goto(w, "epoch_loop")
    /\ UNCHANGED <<cfgVars, ctxVars, trainVars, sideVars, modelVars, steps_per_epoch, batch, global_step,
                   epoch_loss, best_loss, group, writes, samplerVars, opt_steps>>

\* ------------------------------------------------------------ the way out
\* student_module.save_pretrained(output_dir) (lines 402-404).
FinalSaveModel(w) ==
    /\ pc[w] = "final_model"
    /\ writes' = Append(writes, Write(w, 0, "model"))
    /\ Goto(w, "final_tokenizer")
    /\ UNCHANGED <<cfgVars, ctxVars, trainVars, sideVars, modelVars, loopVars, group, samplerVars, opt_steps>>

\* tokenizer.save_pretrained(output_dir), wandb.finish() and the closing
\* report (lines 405-412).
FinalSaveTokenizer(w) ==
    /\ pc[w] = "final_tokenizer"
    /\ writes' = Append(writes, Write(w, 0, "tokenizer"))
    /\ \E ok \in SinkOutcomes(w) :
          IF ok
          THEN /\ Goto(w, "cleanup")
               /\ UNCHANGED <<modelVars, loopVars, ctxVars, stepLocals>>
          ELSE /\ Fail(w, "SinkError")
               /\ UNCHANGED events
    /\ UNCHANGED <<cfgVars, sched_steps, summaries, sideVars, group, samplerVars, opt_steps>>

\* cleanup_distributed() and the return (lines 56-59, 414-415).
CleanupDistributed(w) ==
    /\ pc[w] = "cleanup"
    /\ group' = [group EXCEPT ![w] = IF @ = "initialized" THEN "destroyed" ELSE @]
    /\ Goto(w, "done")
    /\ UNCHANGED <<cfgVars, ctxVars, trainVars, sideVars, modelVars, loopVars, writes, samplerVars, opt_steps>>

\* The places a worker has left distill() from.
ExitPcs == {"done", "raised"}

\* An exception leaves distill(): nothing in distill() catches it, so none of
\* the statements after the raising one runs (a failing load, a malformed
\* data line, a device error in a step, a failing save, a collective that
\* times out, ...).  The frame of distill() is unwound and its locals are
\* gone; what the worker did to the world (group, events, arrived,
\* barrier_calls, writes) stays.
Raise(w) ==
    /\ pc[w] \notin ExitPcs
    /\ pc[w] # "start"
    /\ Fail(w, "Exception")
    /\ UNCHANGED <<cfgVars, sched_steps, summaries, sideVars, events, group, writes, samplerVars, opt_steps>>

Next ==
    \/ \E w \in Ranks : SetupDistributed(w)
    \/ \E w \in Ranks : LoadModels(w)
    \/ \E w \in Ranks : Reconcile(w)
    \/ \E w \in Ranks : PlaceStudent(w)
    \/ \E w \in Ranks : WrapDDP(w)
    \/ \E w \in Ranks : LoadData(w)
    \/ \E w \in Ranks : EpochBegin(w)
    \/ \E w \in Ranks : LoopExit(w)
    \/ \E w \in Ranks : Forward(w)
    \/ \E w \in Ranks : Backward(w)
    \/ \E w \in Ranks : EpochSummary(w)
    \/ \E w \in Ranks : SaveCheckpointModel(w)
    \/ \E w \in Ranks : SaveCheckpointTokenizer(w)
    \/ \E w \in Ranks : EpochBarrier(w)
    \/ \E w \in Ranks : FinalSaveModel(w)
    \/ \E w \in Ranks : FinalSaveTokenizer(w)
    \/ \E w \in Ranks : CleanupDistributed(w)
    \/ \E w \in Ranks : Raise(w)

Spec == Init /\ [][Next]_vars

\* ---------------------------------------------------------------- start-up
\* The runs up to the point where the data is loaded, for every combination
\* of the four vocabulary sizes.
InitStartup ==
    /\ Environments
    /\ num_epochs = 1
    /\ batch_size = 1
    /\ dataset_len = 0
    /\ vocab \in AllVocabs
    /\ Fresh
    /\ NoSide
    /\ randperm = << >>
    /\ generator = NoGenerator

NextStartup ==
    \/ \E w \in Ranks : SetupDistributed(w)
    \/ \E w \in Ranks : LoadModels(w)
    \/ \E w \in Ranks : Reconcile(w)
    \/ \E w \in Ranks : PlaceStudent(w)
    \/ \E w \in Ranks : WrapDDP(w)
    \/ \E w \in Ranks : pc[w] \in {"load_models", "reconcile", "place_student", "wrap_ddp"} /\ Raise(w)

SpecStartup == InitStartup /\ [][NextStartup]_vars

\* ------------------------------------------------------------ the sampler
\* The data loader on its own: one epoch after the other, the sampler is
\* given the epoch, draws the epoch's permutation from the generator seeded
\* with seed + epoch, and every rank iterates its loader once.
InitSampler ==
    /\ Environments
    /\ num_epochs \in 1..MaxEpochs
    /\ batch_size \in 1..MaxBatch
    /\ dataset_len \in 0..MaxShardData
    /\ vocab = DefaultVocab
    /\ Fresh
    /\ NoSide
    /\ randperm \in Perms(dataset_len)
    /\ generator = NoGenerator

\* The indices rank r's loader walks through in an epoch: its sampler's with
\* a DistributedSampler, the whole permutation (shuffle=True) without one
\* (lines 266-275).
EpochIndices(perm, r) ==
    IF world_size > 1 THEN SamplerIndices(perm, world_size, r) ELSE perm

\* for batch in progress: rank r walks through its loader (line 307).
IterateLoader(r) ==
    /\ r \notin DOMAIN shard
    /\ shard' = [q \in (DOMAIN shard) \cup {r} |->
                    IF q = r THEN EpochIndices(randperm, r) ELSE shard[q]]
    /\ UNCHANGED <<cfgVars, ctxVars, trainVars, sideVars, modelVars, loopVars, syncVars, writes, randperm, sampler_epoch, generator, opt_steps>>

\* The next epoch: sampler.set_epoch(epoch) and a new permutation (lines 296-298).
SetEpoch ==
    /\ DOMAIN shard = Ranks
    /\ \A r \in Ranks : sampler_epoch[r] + 1 < num_epochs
    /\ sampler_epoch' = [r \in Ranks |-> sampler_epoch[r] + 1]
    /\ randperm' \in Perms(dataset_len)
    /\ shard' = [q \in {} |-> << >>]
    /\ UNCHANGED <<generator, cfgVars, ctxVars, trainVars, sideVars, modelVars, loopVars, syncVars, writes, opt_steps>>

NextSampler ==
    \/ \E r \in Ranks : IterateLoader(r)
    \/ SetEpoch

SpecSampler == InitSampler /\ [][NextSampler]_vars

\* ------------------------------------------------------------- properties
\* The workers still inside distill().
Live == {w \in Ranks : pc[w] \notin ExitPcs}

\* The places between the start of a save and its end.
SavePcs == {"ckpt_model", "ckpt_tokenizer", "final_model", "final_tokenizer"}

\* The places after the epoch loop.
AfterLoopPcs == {"final_model", "final_tokenizer", "cleanup", "done"}

\* The saves of the student model into the epoch-<N> directories, in order.
CheckpointSaves == SelectSeq(writes, LAMBDA x : x.what = "model" /\ x.dir > 0)

\* The final directory has been written to.
FinalWritten == \E i \in 1..Len(writes) : writes[i].dir = 0

\* C1: the losses of the epoch checkpoints saved in a run are strictly
\* decreasing in the order of their epochs: of two checkpoints, the one of
\* the later epoch has the strictly smaller loss.
C1_SavedLossesDecrease ==
    \A i, j \in 1..Len(CheckpointSaves) :
        i < j => /\ CheckpointSaves[i].dir < CheckpointSaves[j].dir
                 /\ FLt(CheckpointSaves[j].loss, CheckpointSaves[i].loss)

\* C1 witness: a run that has saved the checkpoints of two epochs.
C1_TwoCheckpoints == Len(CheckpointSaves) >= 2

\* C2: every save of the student model or the tokenizer, into an epoch
\* directory or into the final one, is made by the worker of rank 0; no
\* other worker is ever inside a save, and no two workers are at once.
C2_OnlyMainWrites ==
    /\ \A i \in 1..Len(writes) : writes[i].rank = 0
    /\ \A w \in Ranks : pc[w] \in SavePcs => w = 0
    /\ Cardinality({w \in Ranks : pc[w] \in SavePcs}) <= 1

\* C2 witness: a run of several workers in which a checkpoint and the final
\* directory have been written in full.
C2_GroupRunSaved ==
    /\ world_size > 1
    /\ Len(CheckpointSaves) >= 1
    /\ \E i \in 1..Len(writes) : writes[i].dir = 0 /\ writes[i].what = "tokenizer"

\* C3: with several workers, whenever a worker is in a step of a later epoch
\* than the first, every worker of the group has made all the optimizer steps
\* of the epoch before and has entered that epoch's barrier.
C3_EpochsInLockstep ==
    world_size > 1 =>
        \A w \in Live : \A v \in Ranks :
            (pc[w] \in {"forward", "backward"} /\ epoch[w] >= 1) =>
                /\ barrier_calls[v] >= epoch[w]
                /\ opt_steps[v] >= epoch[w] * steps_per_epoch[w]

\* C3 witness: a worker of a group is in the backward pass of the first step
\* of the second epoch.
C3_SecondEpochStep ==
    /\ world_size > 1
    /\ \E w \in Live : pc[w] = "backward" /\ epoch[w] = 1 /\ batch[w] = 0

\* C4: with several workers, as long as some worker has not entered the
\* barrier of an epoch (it lags behind or it has left distill() on an
\* exception), no other worker is past that barrier: none is in a later
\* epoch, none is past the loop or done, and nothing has been written to the
\* final directory.
C4_MissingWorkerBlocksGroup ==
    world_size > 1 =>
        \A v \in Ranks :
            /\ \A w \in Live : epoch[w] <= barrier_calls[v]
            /\ \A w \in Ranks : pc[w] \in AfterLoopPcs => barrier_calls[v] >= num_epochs
            /\ FinalWritten => barrier_calls[v] >= num_epochs

\* C4 witness: one worker has left on an exception before the barrier of an
\* epoch, and another one has entered that barrier and waits in it.
C4_WaitingForLostWorker ==
    /\ world_size > 1
    /\ \E v, w \in Ranks :
          /\ pc[v] = "raised"
          /\ pc[w] = "barrier"
          /\ barrier_calls[v] < barrier_calls[w]

\* C7: a worker that has left distill(), by return or by exception, after
\* the process group was initialised has destroyed the group.
C7_GroupDestroyedOnExit ==
    \A w \in Ranks :
        (pc[w] \in ExitPcs /\ group[w] # "none") => group[w] = "destroyed"

\* Every rank has walked through its loader in the epoch under way.
AllSampled == DOMAIN shard = Ranks

\* How many times index i is handed out in the epoch under way, over all
\* ranks.
TimesAssigned(i) ==
    Cardinality(UNION {{<<r, k>> : k \in {j \in 1..Len(shard[r]) : shard[r][j] = i}} :
                          r \in DOMAIN shard})

\* The indices of the dataset.
Indices == 0..(dataset_len - 1)

\* The shards of two different ranks share no index.
ShardsDisjoint ==
    \A r1, r2 \in DOMAIN shard : r1 # r2 => Range(shard[r1]) \cap Range(shard[r2]) = {}

\* C5 as stated: for every dataset of at least one example and every group
\* of several workers, the shards of an epoch are pairwise disjoint and
\* their union is the whole index set.
C5_ShardsPartitionAlways ==
    (AllSampled /\ world_size > 1 /\ dataset_len >= 1) =>
        /\ ShardsDisjoint
        /\ UNION {Range(shard[r]) : r \in Ranks} = Indices

\* C5 as amended: the union of the shards of an epoch is the whole index
\* set and no shard holds an index twice; the shards hold
\* world_size * ceil(N / world_size) entries together, so every index is
\* handed out exactly once when world_size divides N, and otherwise
\* world_size * ceil(N / world_size) - N of the entries repeat indices that
\* another rank holds as well.
C5_ShardsCoverWithPadding ==
    (AllSampled /\ world_size > 1 /\ dataset_len >= 1) =>
        LET total == world_size * CeilDiv(dataset_len, world_size)
            spare == {i \in Indices : TimesAssigned(i) > 1}
        IN  /\ UNION {Range(shard[r]) : r \in Ranks} = Indices
            /\ \A r \in Ranks : Cardinality(Range(shard[r])) = Len(shard[r])
            /\ \A r \in Ranks : Len(shard[r]) * world_size = total
            /\ (dataset_len % world_size = 0) => ShardsDisjoint
            /\ (dataset_len % world_size # 0) => ~ShardsDisjoint
            /\ \A i \in Indices :
                  TimesAssigned(i) \in {total \div dataset_len, CeilDiv(total, dataset_len)}

\* C5 witness: every rank of a group has drawn its shard of a dataset whose
\* size the group size does not divide.
C5_UnevenDatasetSampled ==
    /\ AllSampled
    /\ world_size > 1
    /\ dataset_len > world_size
    /\ dataset_len % world_size # 0

\* C6: all ranks have shards of the same size, and so the same number of
\* batches in an epoch: the len(dataloader) that every rank takes for its
\* steps_per_epoch.
C6_EqualShardSizes ==
    \A r1, r2 \in DOMAIN shard :
        /\ Len(shard[r1]) = Len(shard[r2])
        /\ DataLoaderLen(Len(shard[r1]), batch_size)
              = DataLoaderLen(SamplerLen(r2), batch_size)

\* C6 witness: two ranks have drawn their shards of a dataset whose size the
\* group size does not divide, with more than one batch each.
C6_TwoShardsDrawn ==
    /\ Cardinality(DOMAIN shard) >= 2
    /\ dataset_len % world_size # 0
    /\ \E r \in DOMAIN shard : DataLoaderLen(Len(shard[r]), batch_size) >= 2

\* The places of the start-up after the reconciliation.
ReconciledPcs == {"place_student", "wrap_ddp", "load_data"}

\* m is the largest of the four sizes.
IsLargestSize(m) ==
    LET sizes == {vocab.teacher_tok, vocab.student_tok,
                  vocab.teacher_model, vocab.student_model}
    IN  m \in sizes /\ \A x \in sizes : x <= m

\* C8: after the reconciliation target_vocab is the largest of the four
\* sizes and both embedding tables have target_vocab rows; no table has
\* fewer rows than it was loaded with.
C8_TablesEqualTarget ==
    \A w \in Ranks :
        pc[w] \in ReconciledPcs =>
            /\ IsLargestSize(target_vocab[w])
            /\ teacher_emb[w] = target_vocab[w]
            /\ student_emb[w] = target_vocab[w]
            /\ teacher_emb[w] >= vocab.teacher_model
            /\ student_emb[w] >= vocab.student_model

\* C8 witness: a reconciliation that has grown both tables, to the size of
\* a tokenizer.
C8_BothTablesGrown ==
    \E w \in Ranks :
        /\ pc[w] \in ReconciledPcs
        /\ teacher_emb[w] > vocab.teacher_model
        /\ student_emb[w] > vocab.student_model

\* The positions of event e in the events of worker w.
At(w, e) == {i \in 1..Len(events[w]) : events[w][i] = e}

\* Every event a of worker w comes before every event b of it.
Before(w, a, b) == \A i \in At(w, a) : \A j \in At(w, b) : i < j

\* Worker w has reconciled at most once, and once when it is past it.
ReconciledOnce(w) ==
    /\ Cardinality(At(w, "reconcile")) <= 1
    /\ Cardinality(At(w, "resize_teacher")) <= 1
    /\ Cardinality(At(w, "resize_student")) <= 1
    /\ pc[w] \in ReconciledPcs => Cardinality(At(w, "reconcile")) = 1

\* C9 as stated: the reconciliation runs once, and each model is resized
\* before it is placed on a device and before the student is wrapped.
C9_ResizeBeforeAnyPlacement ==
    \A w \in Ranks :
        /\ ReconciledOnce(w)
        /\ Before(w, "resize_teacher", "place_teacher")
        /\ Before(w, "resize_student", "place_student")
        /\ Before(w, "resize_student", "wrap_student")

\* C9 as amended: the reconciliation runs once; the student is resized
\* before it is placed on a device and before it is wrapped; the teacher is
\* resized after it was placed on its device, where device_map put it when
\* it was loaded.
C9_StudentResizedBeforePlacement ==
    \A w \in Ranks :
        /\ ReconciledOnce(w)
        /\ Before(w, "place_teacher", "resize_teacher")
        /\ Before(w, "resize_student", "place_student")
        /\ Before(w, "resize_student", "wrap_student")
        /\ Cardinality(At(w, "place_student")) <= 1

\* C9 witness: a worker of a group that resized both tables and has its
\* student wrapped.
C9_ResizedPlacedWrapped ==
    \E w \in Ranks :
        /\ At(w, "resize_teacher") # {}
        /\ At(w, "resize_student") # {}
        /\ At(w, "wrap_student") # {}

\* C10 as stated: only the worker of rank 0 resizes embeddings.
C10_OnlyMainResizes ==
    \A w \in Ranks :
        (At(w, "resize_teacher") # {} \/ At(w, "resize_student") # {}) => w = 0

\* C10 as amended: every worker, whatever its rank, resizes each of its own
\* two models exactly when the model's table differs from the largest of
\* the four sizes; only the log line that announces a resize is the main
\* worker's alone.
C10_EveryWorkerResizes ==
    \A w \in Ranks :
        /\ pc[w] \in ReconciledPcs =>
              /\ At(w, "resize_teacher") # {} <=> ~IsLargestSize(vocab.teacher_model)
              /\ At(w, "resize_student") # {} <=> ~IsLargestSize(vocab.student_model)
        /\ (At(w, "log_resize_teacher") # {} \/ At(w, "log_resize_student") # {}) => w = 0
        /\ (w = 0 /\ At(w, "resize_teacher") # {}) => At(w, "log_resize_teacher") # {}
        /\ (w = 0 /\ At(w, "resize_student") # {}) => At(w, "log_resize_student") # {}

\* C10 witness: a worker other than the main one has resized a table.
C10_OtherWorkerResized ==
    \E w \in Ranks :
        /\ w # 0
        /\ pc[w] \in ReconciledPcs
        /\ At(w, "resize_teacher") # {}
        /\ At(w, "resize_student") # {}

\* ---------------------------------------------------------- modal/distill.py
\* The single-process script of packages/training/src/modal/distill.py, the
\* one distill_lambda.py was adapted from.  The workers of distill_lambda.py
\* are not started while it runs.
runVars == <<modelVars, loopVars, syncVars, opt_steps, writes, samplerVars, ctxVars,
            trainVars>>

\* distill_lambda.py not launched: one process, no torchrun environment.
IdleRun ==
    /\ environ = {}
    /\ world_size = 1
    /\ num_gpus = 1
    /\ Fresh
    /\ randperm = << >>
    /\ generator = NoGenerator

InitModal ==
    /\ IdleRun
    /\ num_epochs \in 1..MaxEpochs
    /\ batch_size = 1
    /\ dataset_len \in 0..MaxData
    /\ vocab \in AllVocabs
    /\ NoExample
    /\ NoFile
    /\ modal = [ModalOff EXCEPT !.pc = "start"]

\* The script leaves distill() on exception e.
ModalFail(e) == modal' = [modal EXCEPT !.pc = "raised", !.error = e]

\* Teacher (device_map="auto") and student (to "cuda") are loaded, each with
\* its own vocabulary; no resize_token_embeddings follows (lines 132-166).
ModalLoadModels ==
    /\ modal.pc = "start"
    /\ modal' = [modal EXCEPT !.pc = "load_data"]
    /\ UNCHANGED <<cfgVars, runVars, exampleVars, fileVars>>

\* Data, loader (shuffle=True, no sampler), optimizer, scheduler (lines 168-262).
ModalLoadData ==
    /\ modal.pc = "load_data"
    /\ modal' = [modal EXCEPT !.pc = "epoch_loop",
                              !.steps_per_epoch = DataLoaderLen(dataset_len, batch_size)]
    /\ UNCHANGED <<cfgVars, runVars, exampleVars, fileVars>>

\* The head of the epoch loop with an epoch left (lines 264-270).
ModalEpochBegin ==
    /\ modal.pc = "epoch_loop"
    /\ modal.epoch < num_epochs
    /\ modal' = [modal EXCEPT !.pc = IF modal.steps_per_epoch > 0 THEN "forward" ELSE "summary",
                              !.batch = 0]
    /\ UNCHANGED <<cfgVars, runVars, exampleVars, fileVars>>

\* Teacher and student forward (lines 272-293): the last dimension of the
\* logits of a model is the number of rows of its own table.
ModalForward ==
    /\ modal.pc = "forward"
    /\ modal' = [modal EXCEPT !.pc = "loss",
                              !.teacher_logits = vocab.teacher_model,
                              !.student_logits = vocab.student_model]
    /\ UNCHANGED <<cfgVars, runVars, exampleVars, fileVars>>

\* The losses (lines 295-310).  With a position selected by the mask,
\* F.kl_div is given student_log_probs and teacher_probs and raises
\* RuntimeError when their last dimensions differ (the sizes stand for
\* vocabularies of more than one token, so nothing is broadcast).
ModalLoss ==
    /\ modal.pc = "loss"
    /\ \E mask_any \in BOOLEAN :
          IF mask_any /\ modal.teacher_logits # modal.student_logits
          THEN ModalFail("RuntimeError")
          ELSE modal' = [modal EXCEPT !.pc = "backward"]
    /\ UNCHANGED <<cfgVars, runVars, exampleVars, fileVars>>

\* Backward, clip, optimizer and scheduler step, the sums (lines 312-364).
ModalBackward ==
    /\ modal.pc = "backward"
    /\ modal' = [modal EXCEPT !.pc = IF modal.batch + 1 < modal.steps_per_epoch
                                     THEN "forward" ELSE "summary",
                              !.batch = @ + 1,
                              !.global_step = @ + 1]
    /\ UNCHANGED <<cfgVars, runVars, exampleVars, fileVars>>

\* The epoch summary (lines 365-378): dividing by len(dataloader) = 0 raises
\* ZeroDivisionError.
ModalEpochSummary ==
    /\ modal.pc = "summary"
    /\ IF modal.steps_per_epoch = 0
       THEN ModalFail("ZeroDivisionError")
       ELSE modal' = [modal EXCEPT !.pc = "epoch_loop", !.epoch = @ + 1]
    /\ UNCHANGED <<cfgVars, runVars, exampleVars, fileVars>>

\* The save after the loop (lines 380-391).  Line 381 calls os.makedirs, and
\* os is bound neither in distill() (lines 97-109) nor in the module (line
\* 15 imports modal alone): NameError, before anything is saved.
ModalSave ==
    /\ modal.pc = "epoch_loop"
    /\ modal.epoch >= num_epochs
    /\ ModalFail("NameError")
    /\ UNCHANGED <<cfgVars, runVars, exampleVars, fileVars>>

NextModal ==
    \/ ModalLoadModels
    \/ ModalLoadData
    \/ ModalEpochBegin
    \/ ModalForward
    \/ ModalLoss
    \/ ModalBackward
    \/ ModalEpochSummary
    \/ ModalSave

SpecModal == InitModal /\ [][NextModal]_vars

\* C11: at every loss computation of either script, the logits of the
\* teacher and the logits of the student have the same vocabulary dimension,
\* whatever the four sizes are.
C11_LogitsSameWidth ==
    /\ \A w \in Ranks : pc[w] = "backward" => teacher_emb[w] = student_emb[w]
    /\ modal.pc = "loss" => modal.teacher_logits = modal.student_logits

\* ------------------------------------------------- runs over any vocabulary
\* One-epoch runs over a dataset that gives every worker one step, for every
\* combination of the four vocabulary sizes.
InitAnyVocab ==
    /\ Environments
    /\ num_epochs = 1
    /\ batch_size = 1
    /\ dataset_len = 1
    /\ vocab \in AllVocabs
    /\ Fresh
    /\ NoSide
    /\ randperm = << >>
    /\ generator = NoGenerator

SpecAnyVocab == InitAnyVocab /\ [][Next]_vars

\* len(t) of the tokenizer named t (lines 188-189).
TokenizerSize(t) == IF t = "teacher" THEN vocab.teacher_tok ELSE vocab.student_tok

\* The saves of a tokenizer, in order.
TokenizerSaves == SelectSeq(writes, LAMBDA x : x.what = "tokenizer")

\* C12: the tokenizer a worker tokenizes the training data with, and the
\* tokenizer saved with every checkpoint and with the final model, is one
\* and the same, and its size is the larger of the sizes of the teacher's
\* and the student's tokenizer.
C12_LargerTokenizerUsed ==
    /\ \A w \in Ranks :
          tokenizer[w] # "none" =>
              TokenizerSize(tokenizer[w]) = Max2(vocab.teacher_tok, vocab.student_tok)
    /\ \A i \in 1..Len(TokenizerSaves) :
          /\ TokenizerSaves[i].tok \in {"teacher", "student"}
          /\ TokenizerSize(TokenizerSaves[i].tok) = Max2(vocab.teacher_tok, vocab.student_tok)
          /\ TokenizerSaves[i].tok = TokenizerSaves[1].tok

\* C12 witness: the student's tokenizer is the larger one and it has been
\* saved with a checkpoint and with the final model.
C12_StudentTokenizerSaved ==
    /\ vocab.student_tok > vocab.teacher_tok
    /\ \E i, j \in 1..Len(TokenizerSaves) :
          /\ TokenizerSaves[i].dir > 0
          /\ TokenizerSaves[j].dir = 0
          /\ TokenizerSaves[i].tok = "student"
          /\ TokenizerSaves[j].tok = "student"

\* ------------------------------------------------- one example, one step
\* tokenize_example on one record and the losses of the step made on the
\* batch that holds it (batch_size 1).  A text is the sequence of its tokens:
\* the tokenizer is taken to split a string the same way wherever it stands
\* (no merge across the seam between the prompt and the ir), to add no
\* special token and to pad on the right, as the Qwen2.5 tokenizers do.
Tokens == {1, 2}

\* The tokens of "Design: " and of "\n\nCompact IR:\n" (line 75).
DesignToken == 8
CompactIrToken == 9

\* tokenizer.pad_token_id (lines 182-185).
PadId == 0

\* The label the losses ignore (lines 255, 324).
IgnoreIndex == -100

\* All token sequences of at most n tokens.
SeqsUpTo(n) == UNION {[1..k -> Tokens] : k \in 0..n}

\* The records of a dataset file.
Examples == [text : SeqsUpTo(MaxText), ir : SeqsUpTo(MaxIr)]

\* The values of alpha explored.
Alphas == {[n |-> k, d |-> AlphaDen] : k \in 0..AlphaDen}

\* format_prompt (lines 73-75).
FormatPrompt(text) == (<<DesignToken>> \o text) \o <<CompactIrToken>>

\* Mutant: the tokenizer called without truncation.
EncodeUntruncated(toks, max_length, padding) ==
    LET npad == IF padding /\ Len(toks) < max_length THEN max_length - Len(toks) ELSE 0
    IN  [input_ids |-> toks \o [i \in 1..npad |-> PadId],
         attention_mask |-> [i \in 1..Len(toks) |-> 1] \o [i \in 1..npad |-> 0]]

\* tokenizer(s, max_length=max_length, truncation=True) with or without
\* padding="max_length" (lines 236-250): the tokens are cut after max_length
\* and, with padding, filled up to max_length.
Encode(toks, max_length, padding) ==
    LET kept == SubSeq(toks, 1, IF Len(toks) < max_length THEN Len(toks) ELSE max_length)
        npad == IF padding THEN max_length - Len(kept) ELSE 0
    IN  [input_ids |-> kept \o [i \in 1..npad |-> PadId],
         attention_mask |-> [i \in 1..Len(kept) |-> 1] \o [i \in 1..npad |-> 0]]

\* Mutant: the last prompt position keeps its label.
MaskLabelsShort(input_ids, prompt_len) ==
    [i \in 1..Len(input_ids) |-> IF i < prompt_len THEN IgnoreIndex ELSE input_ids[i]]

\* labels = input_ids.clone(); labels[:, :prompt_len] = -100 (lines 254-255).
MaskLabels(input_ids, prompt_len) ==
    [i \in 1..Len(input_ids) |-> IF i <= prompt_len THEN IgnoreIndex ELSE input_ids[i]]

\* tokenize_example (lines 230-259).
TokenizeExample(ex, max_length) ==
    LET prompt == FormatPrompt(ex.text)
        full_text == prompt \o ex.ir
        encoded == Encode(full_text, max_length, TRUE)
        prompt_encoded == Encode(prompt, max_length, FALSE)
        prompt_len == Len(prompt_encoded.input_ids)
    IN  [input_ids |-> encoded.input_ids,
         attention_mask |-> encoded.attention_mask,
         labels |-> MaskLabels(encoded.input_ids, prompt_len),
         prompt_len |-> prompt_len]

InitExample ==
    /\ IdleRun
    /\ num_epochs = 1
    /\ batch_size = 1
    /\ dataset_len = 1
    /\ vocab = DefaultVocab
    /\ NoFile
    /\ modal = ModalOff
    /\ max_seq_length \in 1..MaxSeq
    /\ alpha \in Alphas
    /\ example \in Examples
    /\ tokenized = NoTokens
    /\ step_loss = NoStep

\* dataset.map(tokenize_example) reaches the record (line 262).
MapExample ==
    /\ tokenized = NoTokens
    /\ tokenized' = TokenizeExample(example, max_seq_length)
    /\ UNCHANGED <<cfgVars, runVars, max_seq_length, alpha, example, step_loss, fileVars, modal>>

\* Mutant: the mask is taken to select something whatever the labels.
MaskAnyAlways(labels) == TRUE

\* mask = labels != -100; mask.any() (lines 324-325).
MaskAny(labels) == \E i \in 1..Len(labels) : labels[i] # IgnoreIndex

\* The values student_outputs.loss can take (line 321): the model shifts the
\* labels by one and averages the cross-entropy over those that are not
\* -100, which is NaN when there is none.
TaskLosses(labels) ==
    IF \E i \in 2..Len(labels) : labels[i] # IgnoreIndex THEN StepLosses ELSE {FNaN}

\* Mutant: the two weights change places.
BlendSwapped(a, distill_loss, task_loss) ==
    FAdd(FMul(OneMinus(a), distill_loss), FMul(a, task_loss))

\* loss = alpha * distill_loss + (1 - alpha) * task_loss (line 333).
Blend(a, distill_loss, task_loss) ==
    FAdd(FMul(a, distill_loss), FMul(OneMinus(a), task_loss))

\* The losses of the step on the tokenized example (lines 318-333): softmax,
\* log_softmax and kl_div run only when the mask selects a position.
ComputeLoss ==
    /\ tokenized # NoTokens
    /\ ~step_loss.computed
    /\ \E task_loss \in TaskLosses(tokenized.labels) :
       \E kl \in StepLosses :
          LET any == MaskAny(tokenized.labels)
              distill_loss == IF any THEN kl ELSE Fin(0)
          IN  step_loss' = [computed |-> TRUE,
                            kl_evaluated |-> any,
                            distill_loss |-> distill_loss,
                            task_loss |-> task_loss,
                            loss |-> Blend(alpha, distill_loss, task_loss)]
    /\ UNCHANGED <<cfgVars, runVars, max_seq_length, alpha, example, tokenized, fileVars, modal>>

NextExample ==
    \/ MapExample
    \/ ComputeLoss

SpecExample == InitExample /\ [][NextExample]_vars

\* The record has been tokenized.
Tokenized == tokenized # NoTokens

\* The first padding position of the tokenized example (1-based), one past
\* the end when nothing was padded.
FirstPad ==
    LET pads == {i \in 1..Len(tokenized.attention_mask) : tokenized.attention_mask[i] = 0}
    IN  IF pads = {} THEN Len(tokenized.attention_mask) + 1
        ELSE CHOOSE i \in pads : \A j \in pads : i <= j

\* C13: for a record whose prompt has p tokens, every position of the labels
\* before p is IGNORE (-100), and every position from p up to the first
\* padding position carries the token of input_ids at that position.
C13_PromptMaskedRestLabelled ==
    Tokenized =>
        LET p == Len(FormatPrompt(example.text))
        IN  \A i \in 1..Len(tokenized.labels) :
               /\ i <= p => tokenized.labels[i] = IgnoreIndex
               /\ (i > p /\ i < FirstPad) =>
                      tokenized.labels[i] = tokenized.input_ids[i]

\* C13 witness: a tokenized record with a masked prompt, a labelled ir and
\* padding after it.
C13_PromptIrAndPadding ==
    /\ Tokenized
    /\ example.text # << >>
    /\ example.ir # << >>
    /\ Len(FormatPrompt(example.text)) + Len(example.ir) < max_seq_length
    /\ tokenized.labels[tokenized.prompt_len] = IgnoreIndex
    /\ tokenized.labels[tokenized.prompt_len + 1] \in Tokens
    /\ tokenized.attention_mask[max_seq_length] = 0

\* C14: whatever the lengths of text and ir, input_ids, attention_mask and
\* labels of the tokenized example have max_seq_length entries each.
C14_AllOfMaxSeqLength ==
    Tokenized =>
        /\ Len(tokenized.input_ids) = max_seq_length
        /\ Len(tokenized.attention_mask) = max_seq_length
        /\ Len(tokenized.labels) = max_seq_length

\* C14 witness: a record whose prompt alone has more tokens than
\* max_seq_length has been tokenized.
C14_LongPromptTokenized ==
    /\ Tokenized
    /\ Len(FormatPrompt(example.text)) > max_seq_length
    /\ example.ir # << >>

\* The step on the tokenized example has been made.
StepDone == step_loss.computed

\* Two floats are the same value: the same finite number, both inf or both NaN.
SameFloat(x, y) ==
    IF IsFinite(x) /\ IsFinite(y) THEN x.n * y.d = y.n * x.d
    ELSE x.d = y.d /\ x.n = y.n

\* The combined loss is the number alpha * distill_loss + (1 - alpha) *
\* task_loss, for finite losses.
IsExactBlend ==
    LET a == alpha
        d == step_loss.distill_loss
        t == step_loss.task_loss
        l == step_loss.loss
    IN  /\ IsFinite(l)
        /\ l.n * (a.d * d.d * t.d) = (a.n * d.n * t.d + (a.d - a.n) * t.n * d.d) * l.d

\* C15 as stated: at every step the combined loss is alpha * distill_loss +
\* (1 - alpha) * task_loss for every alpha in [0, 1]; with alpha = 0 it is the
\* task loss and with alpha = 1 it is the distillation loss.
C15_BlendGivesEndpoints ==
    StepDone =>
        /\ alpha.n = 0 => SameFloat(step_loss.loss, step_loss.task_loss)
        /\ alpha.n = alpha.d => SameFloat(step_loss.loss, step_loss.distill_loss)
        /\ (IsFinite(step_loss.distill_loss) /\ IsFinite(step_loss.task_loss)) => IsExactBlend

\* C15, amended: when the distillation loss and the task loss of a step are
\* both finite, the combined loss is alpha * distill_loss + (1 - alpha) *
\* task_loss (rounding apart), the task loss for alpha = 0 and the
\* distillation loss for alpha = 1; when one of the two is inf or NaN the
\* combined loss is inf or NaN whatever alpha is, weight 0 included.
C15_BlendExactWhenFinite ==
    StepDone =>
        IF IsFinite(step_loss.distill_loss) /\ IsFinite(step_loss.task_loss)
        THEN /\ IsExactBlend
             /\ alpha.n = 0 => SameFloat(step_loss.loss, step_loss.task_loss)
             /\ alpha.n = alpha.d => SameFloat(step_loss.loss, step_loss.distill_loss)
        ELSE ~IsFinite(step_loss.loss)

\* C15 witness: a step with alpha strictly between 0 and 1 and two different
\* finite losses.
C15_MixedStep ==
    /\ StepDone
    /\ 0 < alpha.n /\ alpha.n < alpha.d
    /\ IsFinite(step_loss.distill_loss) /\ IsFinite(step_loss.task_loss)
    /\ ~SameFloat(step_loss.distill_loss, step_loss.task_loss)

\* C16: when the mask of the batch selects no position (every label is
\* IGNORE), the distillation loss of the step is exactly 0 and softmax and
\* kl_div have not been evaluated.
C16_EmptyMaskZeroDistill ==
    (StepDone /\ \A i \in 1..Len(tokenized.labels) : tokenized.labels[i] = IgnoreIndex) =>
        /\ step_loss.distill_loss = Fin(0)
        /\ ~step_loss.kl_evaluated

\* C16 witness: a step on an example whose prompt fills the whole sequence.
C16_AllIgnoredStep ==
    /\ StepDone
    /\ tokenized.prompt_len = max_seq_length
    /\ \A i \in 1..max_seq_length : tokenized.labels[i] = IgnoreIndex

\* ------------------------------------------------------------- load_jsonl
\* load_jsonl on one file, line by line.  A line is blank (nothing left after
\* strip()), valid (json.loads returns) or invalid (json.loads raises
\* json.JSONDecodeError).
LineKinds == {"blank", "valid", "invalid"}

\* All files of at most MaxLines lines.
Files == UNION {[1..k -> LineKinds] : k \in 0..MaxLines}

InitLoad ==
    /\ IdleRun
    /\ num_epochs = 1
    /\ batch_size = 1
    /\ dataset_len = 0
    /\ vocab = DefaultVocab
    /\ NoExample
    /\ modal = ModalOff
    /\ file \in Files
    /\ loaded = [pos |-> 0, data |-> 0, status |-> "reading"]

\* One turn of "for line in f" (lines 65-68): a blank line is passed over, a
\* valid one is appended to data, and on an invalid one json.loads raises;
\* nothing in load_jsonl or in distill() catches it.
ReadLine ==
    /\ loaded.status = "reading"
    /\ loaded.pos < Len(file)
    /\ LET line == file[loaded.pos + 1]
       IN  loaded' = [pos |-> loaded.pos + 1,
                      data |-> IF line = "valid" THEN loaded.data + 1 ELSE loaded.data,
                      status |-> IF line = "invalid" THEN "raised" ELSE "reading"]
    /\ UNCHANGED <<cfgVars, runVars, exampleVars, file, modal>>

\* The file is exhausted: return data (line 69).
ReturnData ==
    /\ loaded.status = "reading"
    /\ loaded.pos = Len(file)
    /\ loaded' = [loaded EXCEPT !.status = "returned"]
    /\ UNCHANGED <<cfgVars, runVars, exampleVars, file, modal>>

NextLoad ==
    \/ ReadLine
    \/ ReturnData

SpecLoad == InitLoad /\ [][NextLoad]_vars

\* The lines of the file of kind k.
LinesOfKind(k) == {i \in 1..Len(file) : file[i] = k}

\* C17: loading a file never aborts on a malformed line; the line is dropped
\* and counted: the load returns, and the records loaded plus the lines
\* skipped are the non-empty lines of the file (one valid and one invalid
\* line give 1 loaded and 1 skipped).
C17_MalformedLinesSkipped ==
    /\ loaded.status # "raised"
    /\ loaded.status = "returned" =>
          /\ loaded.data = Cardinality(LinesOfKind("valid"))
          /\ Cardinality(LinesOfKind("valid") \cup LinesOfKind("invalid")) - loaded.data
                = Cardinality(LinesOfKind("invalid"))

\* ------------------------------------------------------------ empty dataset
\* The places of the epoch loop and after it.
LoopPcs ==
    {"epoch_loop", "forward", "backward", "summary", "ckpt_model",
     "ckpt_tokenizer", "barrier"} \cup AfterLoopPcs

\* C18: a run whose dataset is below the minimum viable size, an empty one at
\* the least, fails with a data error before the first training step: no
\* worker enters the training loop, none makes a step, none fails on
\* anything but the data, and nothing is written.
C18_EmptyDatasetIsDataError ==
    dataset_len = 0 =>
        /\ \A w \in Ranks : pc[w] \notin LoopPcs
        /\ \A w \in Ranks : error[w] # "ZeroDivisionError"
        /\ \A w \in Ranks : opt_steps[w] = 0
        /\ writes = << >>

\* ------------------------------------------------------------- environment
\* Worker w is a single worker: rank 0, local_rank 0, world_size 1, no
\* process group, no DDP wrapper, no barrier, no collective.
RunsAlone(w) ==
    /\ error[w] # "KeyError"
    /\ group[w] = "none"
    /\ w \in Live => /\ ctx[w].rank = 0
                     /\ ctx[w].local_rank = 0
                     /\ ctx[w].world_size = 1
    /\ pc[w] # "wrap_ddp"
    /\ "wrap_student" \notin Range(events[w])
    /\ barrier_calls[w] = 0
    /\ arrived[w] = 0

\* C19 as stated: whenever any of RANK, LOCAL_RANK, WORLD_SIZE is not set,
\* setup_distributed gives rank 0, local_rank 0, world_size 1, initialises no
\* group and does not fail, and the run uses no DDP wrapper and no barrier.
C19_AnyNameAbsentRunsAlone ==
    \A w \in Ranks : (environ # EnvNames /\ pc[w] # "start") => RunsAlone(w)

\* C19, amended: whenever RANK is not set, whatever else is, setup_distributed
\* gives rank 0, local_rank 0, world_size 1, initialises no group and does not
\* fail, and the run uses no DDP wrapper and no barrier; with RANK set and
\* LOCAL_RANK or WORLD_SIZE not set, setup_distributed raises KeyError before
\* any group is initialised.
C19_RankAbsentRunsAlone ==
    \A w \in Ranks :
        pc[w] # "start" =>
            /\ ~distributed => RunsAlone(w)
            /\ (distributed /\ environ # EnvNames) =>
                  /\ pc[w] = "raised"
                  /\ error[w] = "KeyError"
                  /\ group[w] = "none"

\* C19 witness: with LOCAL_RANK and WORLD_SIZE set and RANK not set, the run
\* has trained, saved and returned.
C19_PartialEnvironmentRunDone ==
    /\ environ = {"LOCAL_RANK", "WORLD_SIZE"}
    /\ pc[0] = "done"
    /\ opt_steps[0] > 0
    /\ FinalWritten

\* ----------------------------------------------------------------- devices
\* The start-up on machines with any number of accelerators, enough for the
\* run or not.
InitDevices ==
    /\ environ \in {EnvNames, {}}
    /\ world_size \in (IF distributed THEN 1..MaxWorld ELSE {1})
    /\ num_gpus \in 1..(2 * MaxWorld)
    /\ num_epochs = 1
    /\ batch_size = 1
    /\ dataset_len = 0
    /\ vocab = DefaultVocab
    /\ Fresh
    /\ NoSide
    /\ randperm = << >>
    /\ generator = NoGenerator

SpecDevices == InitDevices /\ [][NextStartup]_vars

\* Worker w holds both models on accelerators: the teacher since it was
\* loaded, the student since student.to() (line 209).
HostsBoth(w) ==
    /\ w \in Live
    /\ ctx[w].teacher_device >= 0
    /\ "place_student" \in Range(events[w])

InitLive == Init /\ environ \in {EnvNames, {}} /\ dataset_len <= 1

SpecLive == InitLive /\ [][Next]_vars /\ WF_vars(Next)

\* len(dataloader) of the main worker, from the configuration.
StepsPerEpoch == DataLoaderLen(SamplerLen(0), batch_size)

\* The writes into the final directory, in order.
FinalSaves == SelectSeq(writes, LAMBDA x : x.dir = 0)

\* What a run shows once worker w has returned from distill(): w has gone
\* through num_epochs epochs; the main worker has printed one summary per
\* epoch, in the order of the epochs, and has written the final directory
\* once, model then tokenizer, the model being the student after the last
\* step of the last epoch.
ReturnedInOrder(w) ==
    /\ epoch[w] = num_epochs
    /\ global_step[w] = num_epochs * steps_per_epoch[w]
    /\ IsMain(w) =>
          /\ summaries[w] = [i \in 1..num_epochs |-> i]
          /\ Len(FinalSaves) = 2
          /\ FinalSaves[1].what = "model"
          /\ FinalSaves[1].version = num_epochs * StepsPerEpoch
          /\ FinalSaves[2].what = "tokenizer"
          /\ writes[Len(writes)] = FinalSaves[2]

\* C21: a worker that has returned has gone through exactly num_epochs
\* epochs, the main worker having printed exactly one summary per epoch in
\* epoch order and written the final directory exactly once with the student
\* of the last epoch and the tokenizer, improved or not; and unless some
\* worker fails, every worker does return.
C21_RunsToCompletion ==
    /\ [](\A w \in Ranks : pc[w] = "done" => ReturnedInOrder(w))
    /\ [](\A w \in Ranks : summaries[w] = [i \in 1..Len(summaries[w]) |-> i])
    /\ <>((\E w \in Ranks : pc[w] = "raised") \/ (\A w \in Ranks : pc[w] = "done"))

\* C21 witness: every worker of a group has returned from a run of several
\* epochs whose last epoch did not improve on the best loss.
C21_DoneWithoutLastCheckpoint ==
    /\ world_size > 1
    /\ num_epochs > 1
    /\ \A w \in Ranks : pc[w] = "done"
    /\ \A i \in 1..Len(CheckpointSaves) : CheckpointSaves[i].dir < num_epochs
    /\ Len(FinalSaves) = 2

\* ------------------------------------------------- the save of modal/distill
\* C22: the single-device script does not end on the NameError of a name its
\* function never bound: once its epochs are over, student and tokenizer are
\* saved and output_dir is returned.
C22_SaveCannotFailOnUnboundName ==
    /\ modal.error # "NameError"
    /\ (modal.pc \notin {"off", "start", "load_data", "raised"}
          /\ modal.epoch >= num_epochs) => modal.pc \in {"epoch_loop", "done"}

\* ----------------------------------------------------------- metrics sink
\* C23: a failing call of the metrics sink (initialisation, per-step record,
\* epoch record, finish) never ends a worker's run: no worker is stopped by
\* the sink's error.
C23_SinkFailureNeverAborts == \A w \in Ranks : error[w] # "SinkError"

\* -------------------------------------------------------- option validation
\* Runs of at most one epoch over one example, started with any values of
\* --num_epochs and --batch_size that argparse's type=int lets through, zero
\* included (main() and distill() pass them on as parsed).
InitOptions ==
    /\ Environments
    /\ num_epochs \in 0..1
    /\ batch_size \in 0..1
    /\ dataset_len = 1
    /\ vocab = DefaultVocab
    /\ Fresh
    /\ NoSide
    /\ randperm = << >>
    /\ generator = NoGenerator

SpecOptions == InitOptions /\ [][Next]_vars

\* C24: with an invalid option value (num_epochs or batch_size below 1) no
\* worker gets past the start of distill(): no process group is initialised,
\* no model is loaded or placed, and nothing is written.
C24_InvalidOptionsRejectedFirst ==
    (num_epochs < 1 \/ batch_size < 1) =>
        /\ \A w \in Ranks : /\ pc[w] \in {"start", "raised"}
                            /\ group[w] = "none"
                            /\ events[w] = << >>
        /\ writes = << >>

\* ------------------------------------------------------------ error report
\* C25: whenever a worker's run has been ended by an error, the main worker
\* has that error to report: it holds an error class of its own.
C25_MainWorkerHoldsError ==
    (\E w \in Ranks : pc[w] = "raised") => error[0] # "none"

\* ------------------------------------------------- checkpoint and barrier
\* Where the main worker decides on and writes the checkpoint of an epoch.
CheckpointPcs == {"summary", "ckpt_model", "ckpt_tokenizer"}

\* C26 as stated: with several workers, while the main worker decides on or
\* writes the checkpoint of epoch e, every worker has reached the barrier of
\* epoch e.
C26_BarrierBeforeCheckpoint ==
    (world_size > 1 /\ pc[0] \in CheckpointPcs) =>
        \A v \in Ranks : barrier_calls[v] >= epoch[0] + 1

\* C26 as amended: with several workers, the main worker decides on and
\* writes the checkpoint of epoch e before it enters the barrier of epoch e;
\* meanwhile no worker is past that barrier, that is, in a later epoch.
C26_CheckpointBeforeBarrier ==
    world_size > 1 =>
        /\ pc[0] \in CheckpointPcs =>
              /\ barrier_calls[0] = epoch[0]
              /\ \A v \in Ranks : epoch[v] <= epoch[0]
        /\ pc[0] = "barrier" => barrier_calls[0] = epoch[0] + 1

\* C26 witness: the main worker of a group writes the checkpoint of the
\* second epoch while another worker already waits in that epoch's barrier.
C26_CheckpointWhileOthersWait ==
    /\ world_size > 1
    /\ pc[0] = "ckpt_model"
    /\ epoch[0] = 1
    /\ \E v \in Ranks : pc[v] = "barrier" /\ barrier_calls[v] = 2

\* C27: while the main worker decides on or writes the checkpoint of epoch
\* e, no worker has made an optimizer step of a later epoch, and the model of
\* every checkpoint epoch-N written so far is the student after exactly the
\* steps of the first N epochs.
C27_CheckpointHoldsEpochWeights ==
    /\ pc[0] \in CheckpointPcs =>
          /\ \A v \in Ranks : opt_steps[v] <= (epoch[0] + 1) * StepsPerEpoch
          /\ params[0].student = (epoch[0] + 1) * StepsPerEpoch
    /\ \A i \in 1..Len(CheckpointSaves) :
          /\ CheckpointSaves[i].rank = 0
          /\ CheckpointSaves[i].version = CheckpointSaves[i].dir * StepsPerEpoch

\* C27 witness: in a group, the checkpoint of the second epoch has its model
\* written and the tokenizer is under way, while another worker has made all
\* its steps of that epoch.
C27_SecondCheckpointWritten ==
    /\ world_size > 1
    /\ pc[0] = "ckpt_tokenizer"
    /\ \E i \in 1..Len(CheckpointSaves) : CheckpointSaves[i].dir = 2
    /\ \E v \in Ranks : v # 0 /\ opt_steps[v] = 2 * StepsPerEpoch

\* ------------------------------------------------------- order within a step
\* The order the operations of one training step are to have.
StepOrder ==
    <<"teacher_forward", "student_forward", "loss", "zero_grad", "backward",
      "clip_grad_norm", "optimizer_step", "scheduler_step">>

\* The positions of operation op in the step of worker w.
OpAt(w, op) == {i \in 1..Len(step_ops[w]) : step_ops[w][i] = op}

\* C28: the operations of every step of every worker are a prefix of the
\* fixed order teacher forward, student forward, loss, zero gradients,
\* backward, clipping, optimizer step, scheduler step; an optimizer step has
\* a clipping before it in the same step; and a worker about to start a step
\* after its first has ended the step before with the scheduler step.
C28_StepOrderFixed ==
    \A w \in Ranks :
        /\ Len(step_ops[w]) <= Len(StepOrder)
        /\ step_ops[w] = SubSeq(StepOrder, 1, Len(step_ops[w]))
        /\ \A i \in OpAt(w, "optimizer_step") :
              \E j \in OpAt(w, "clip_grad_norm") : j < i
        /\ (pc[w] = "forward" /\ global_step[w] > 0) => step_ops[w] = StepOrder
        /\ pc[w] = "backward" => Len(step_ops[w]) = 3

\* C28 witness: a worker is about to start its second step, the first one
\* complete.
C28_SecondStepStarts ==
    \E w \in Ranks :
        /\ pc[w] = "forward"
        /\ global_step[w] = 1
        /\ OpAt(w, "optimizer_step") = {7}

\* ------------------------------------------------------------ step counters
\* C29: on every worker still in distill() or returned from it, global_step
\* is the number of optimizer steps and the number of scheduler steps taken;
\* once the scheduler is built, its total is steps_per_epoch * num_epochs and
\* its warmup a tenth of that, rounded down; global_step never exceeds the
\* total, reaches it only with the last step of the last epoch, and equals
\* it when the worker has returned.
C29_GlobalStepCountsSteps ==
    \A w \in Ranks :
        pc[w] # "raised" =>
            /\ global_step[w] = opt_steps[w]
            /\ global_step[w] = sched_steps[w]
            /\ schedule[w] # NoSchedule =>
                  /\ schedule[w].total_steps = steps_per_epoch[w] * num_epochs
                  /\ schedule[w].num_warmup_steps * 10 <= schedule[w].total_steps
                  /\ schedule[w].total_steps < (schedule[w].num_warmup_steps + 1) * 10
                  /\ global_step[w] <= schedule[w].total_steps
                  /\ pc[w] \in {"forward", "backward"} =>
                        global_step[w] < schedule[w].total_steps
            /\ pc[w] = "done" =>
                  /\ schedule[w] # NoSchedule
                  /\ global_step[w] = schedule[w].total_steps

\* C29 witness: a worker of a group has returned after several epochs of
\* steps.
C29_DoneAfterAllSteps ==
    \E w \in Ranks :
        /\ w # 0
        /\ pc[w] = "done"
        /\ num_epochs > 1
        /\ global_step[w] = num_epochs * steps_per_epoch[w]
        /\ sched_steps[w] >= 2

\* ------------------------------------------------------------- the teacher
\* The places of a worker from the end of the reconciliation to its return.
AfterReconcilePcs ==
    {"place_student", "wrap_ddp", "load_data", "epoch_loop", "forward", "backward",
     "summary", "ckpt_model", "ckpt_tokenizer", "barrier", "final_model",
     "final_tokenizer", "cleanup", "done"}

\* C30: from the end of the reconciliation on, the teacher of every worker
\* is the same in every state: its parameters are those it was loaded
\* with, whatever number of training steps was made, and its embedding table
\* keeps the reconciled size.
C30_TeacherNeverChanges ==
    \A w \in Ranks :
        pc[w] \in AfterReconcilePcs =>
            /\ params[w].teacher = LoadedParams.teacher
            /\ teacher_emb[w] = TargetVocab(vocab)

\* C30 witness: a worker has made several training steps, which changed its
\* student.
C30_StudentTrainedTeacherKept ==
    \E w \in Ranks :
        /\ pc[w] \in AfterReconcilePcs
        /\ opt_steps[w] >= 2
        /\ params[w].student # LoadedParams.student

\* ------------------------------------------------------ the seeded sampler
\* DistributedSampler(dataset, num_replicas, rank, shuffle=True) is built
\* without a seed argument (line 266): its seed is the default, 0.
SamplerSeed == 0

\* Mutant: the generator is seeded with the sampler's seed alone.
EpochSeedFixed(e) == SamplerSeed

\* The seed of the generator an iteration of the sampler draws its
\* permutation from: seed + epoch, the epoch being the one set_epoch gave it.
EpochSeed(e) == SamplerSeed + e

\* The workers of a group at the head of the epoch loop, the data loaded,
\* with every function from seeds to permutations that torch.randperm with a
\* seeded generator can be.
InitSeeded ==
    /\ environ = EnvNames
    /\ world_size \in 2..MaxWorld
    /\ num_gpus = NeededGpus
    /\ num_epochs \in 1..MaxEpochs
    /\ batch_size = 1
    /\ dataset_len \in 1..MaxData
    /\ vocab = DefaultVocab
    /\ Fresh
    /\ NoSide
    /\ randperm = << >>
    /\ generator \in [SamplerSeed..(SamplerSeed + num_epochs - 1) -> Perms(dataset_len)]

\* "for batch in progress" (line 307): the loader of worker w asks its sampler
\* for the indices of the epoch, which the sampler deals out of the
\* permutation of the generator seeded with seed + epoch, and the worker
\* walks through them to the end of the loop body.
DrawShard(w) ==
    /\ pc[w] = "forward"
    /\ shard' = [q \in (DOMAIN shard) \cup {w} |->
                    IF q = w
                    THEN EpochIndices(generator[EpochSeed(sampler_epoch[w])], w)
                    ELSE shard[q]]
    /\ Goto(w, "barrier")
    /\ UNCHANGED <<cfgVars, ctxVars, trainVars, sideVars, modelVars, loopVars, group,
                   writes, randperm, sampler_epoch, generator, opt_steps>>

\* The workers enter the loop with their loaders built.
StartSeeded(w) ==
    /\ pc[w] = "start"
    /\ steps_per_epoch' = [steps_per_epoch EXCEPT ![w] =
                              DataLoaderLen(SamplerLen(w), batch_size)]
    /\ Goto(w, "epoch_loop")
    /\ UNCHANGED <<cfgVars, ctxVars, trainVars, sideVars, modelVars, epoch, batch,
                   global_step, epoch_loss, best_loss, group, writes, samplerVars,
                   opt_steps>>

NextSeeded ==
    \/ \E w \in Ranks : StartSeeded(w)
    \/ \E w \in Ranks : EpochBegin(w)
    \/ \E w \in Ranks : DrawShard(w)
    \/ \E w \in Ranks : EpochBarrier(w)

SpecSeeded == InitSeeded /\ [][NextSeeded]_vars

\* The dataset indices among those of a sequence.
Drawn(seq) == {seq[i] : i \in 1..Len(seq)}

\* C31: in a group, a worker past the head of epoch e has its sampler's
\* epoch at e; the shard it draws in epoch e is its stride of the one
\* permutation fixed by the seed and e, whatever the run; and so the shards
\* of the workers that have drawn theirs in the same epoch come from the same
\* permutation and together hold every example.
C31_ShardsFromSeedAndEpoch ==
    /\ \A w \in Ranks :
          /\ pc[w] \in {"forward", "barrier"} => sampler_epoch[w] = epoch[w]
          /\ pc[w] = "barrier" =>
                shard[w] = SamplerIndices(generator[SamplerSeed + epoch[w]], world_size, w)
    /\ (\A w \in Ranks : pc[w] = "barrier" /\ epoch[w] = epoch[0]) =>
          UNION {Drawn(shard[w]) : w \in Ranks} = 0..(dataset_len - 1)

\* C31 witness: in the second epoch, whose permutation differs from the
\* first's, every worker has drawn its shard.
C31_SecondEpochShardsDrawn ==
    /\ \A w \in Ranks : pc[w] = "barrier" /\ epoch[w] = 1
    /\ generator[EpochSeed(1)] # generator[EpochSeed(0)]

\* ------------------------------------------------------------ the best loss
\* The smaller of two losses in the order of <, a NaN never being smaller.
FMin(a, b) == IF FLt(b, a) THEN b ELSE a

\* The places of the main worker between the checkpoint decision of an epoch
\* and the end of that epoch.
DecidedPcs == {"ckpt_model", "ckpt_tokenizer", "barrier"}

\* The checkpoint of the epoch the main worker is in has its model written.
EpochCheckpointed ==
    \E i \in 1..Len(CheckpointSaves) : CheckpointSaves[i].dir = epoch[0] + 1

\* C32: on the main worker best_loss starts at +infinity and every epoch's
\* decision replaces it by the smaller of itself and the epoch's avg_loss,
\* which makes it the minimum of the avg_loss of the epochs so far; nothing
\* else changes it.  The checkpoint of an epoch is written exactly when its
\* avg_loss is strictly below the best before: it then holds that avg_loss,
\* the new best, and it is not written when avg_loss equals the best.  An
\* epoch with a finite avg_loss after none has a checkpoint.
C32_BestLossIsRunningMinimum ==
    /\ [][(pc[0] = "summary" /\ pc'[0] \in DecidedPcs) =>
              /\ best_loss'[0] = FMin(best_loss[0], AvgLoss(0))
              /\ pc'[0] = "ckpt_model" <=> FLt(AvgLoss(0), best_loss[0])
              /\ pc'[0] = "barrier" <=> ~FLt(AvgLoss(0), best_loss[0])]_vars
    /\ [][(pc[0] # "summary" /\ pc'[0] # "raised") =>
              best_loss'[0] = best_loss[0]]_vars
    /\ [](pc[0] \in {"start", "load_models", "reconcile", "place_student", "wrap_ddp",
                     "load_data"} => best_loss[0] = FInf)
    /\ [](pc[0] \in DecidedPcs =>
              /\ ~FLt(AvgLoss(0), best_loss[0])
              /\ pc[0] = "ckpt_model" => best_loss[0] = AvgLoss(0)
              /\ EpochCheckpointed => best_loss[0] = AvgLoss(0)
              /\ (pc[0] = "barrier" /\ IsFinite(AvgLoss(0))) => Len(CheckpointSaves) >= 1)
    /\ [](\A i \in 1..Len(CheckpointSaves) :
              \A j \in 1..Len(CheckpointSaves) :
                  FLt(CheckpointSaves[j].loss, CheckpointSaves[i].loss)
                      => CheckpointSaves[i].dir < CheckpointSaves[j].dir)

\* C32 witness: the main worker has ended its second epoch with the avg_loss
\* of the first, a finite one: the first has its checkpoint, the second has
\* none.
C32_EqualLossNoCheckpoint ==
    /\ pc[0] = "barrier"
    /\ epoch[0] = 1
    /\ IsFinite(AvgLoss(0))
    /\ best_loss[0] = AvgLoss(0)
    /\ Len(CheckpointSaves) = 1
    /\ CheckpointSaves[1].dir = 1

\* ------------------------------------------------- whose losses decide
\* What the checkpoint decisions of a run are computed from, and their
\* results: the running sum and the best loss of the main worker, and the
\* writes.
DecisionState == <<epoch_loss[0], best_loss[0], writes>>

\* C33: the checkpoint decisions are a function of the main worker's own
\* losses.  No step of another worker changes the main worker's running sum,
\* its best loss or the writes; the main worker's sum grows by one of its
\* own step losses at a time; and the decision of an epoch compares the main
\* worker's sum divided by steps_per_epoch with its best loss, the sums of
\* the other workers having no part in it.
C33_DecisionsFromMainLossesOnly ==
    /\ [][pc'[0] = pc[0] => UNCHANGED DecisionState]_vars
    /\ [][(pc[0] = "backward" /\ pc'[0] \in {"forward", "summary"}) =>
              \E l \in StepLosses : epoch_loss'[0] = FAdd(epoch_loss[0], l)]_vars
    /\ [][(pc[0] = "summary" /\ pc'[0] \in DecidedPcs) =>
              LET own == FDivInt(epoch_loss[0], steps_per_epoch[0])
              IN  /\ pc'[0] = "ckpt_model" <=> FLt(own, best_loss[0])
                  /\ best_loss'[0] = IF FLt(own, best_loss[0]) THEN own ELSE best_loss[0]
                  /\ epoch_loss'[0] = epoch_loss[0]]_vars

\* C33 witness: in a group, the main worker has decided for a checkpoint
\* while another worker ends the same epoch with a different running sum.
C33_OtherSumDiffers ==
    /\ world_size > 1
    /\ pc[0] = "ckpt_model"
    /\ \E v \in Ranks :
          /\ v # 0
          /\ pc[v] \in {"summary", "barrier"}
          /\ epoch[v] = epoch[0]
          /\ ~SameFloat(epoch_loss[v], epoch_loss[0])

\* ------------------------------------------------- devices across workers
\* The accelerators worker w has put a model on or chosen for one.
DevicesOf(w) == {ctx[w].student_gpu, ctx[w].teacher_device} \ {-1}

\* C34: in a group, the accelerators of two different workers never
\* overlap: each worker's are the pair {2 * local_rank, 2 * local_rank + 1},
\* and no student or teacher shares a device with a model of another worker.
C34_WorkersDevicesDisjoint ==
    world_size > 1 =>
        \A v, w \in Ranks :
            /\ DevicesOf(w) \subseteq {2 * ctx[w].local_rank, 2 * ctx[w].local_rank + 1}
            /\ (v # w /\ ctx[v].local_rank # ctx[w].local_rank)
                  => DevicesOf(v) \cap DevicesOf(w) = {}

\* C34 witness: two workers of a group hold both their models.
C34_TwoWorkersHostBoth ==
    /\ world_size > 1
    /\ \E v, w \in Ranks :
          /\ v # w
          /\ HostsBoth(v)
          /\ HostsBoth(w)
          /\ Cardinality(DevicesOf(v) \cup DevicesOf(w)) = 4

\* C35: in a group, the current device of every worker, the one
\* setup_distributed() selected, is the device of the worker's student, and
\* it is no device of a model of another worker.
C35_CurrentDeviceIsStudentDevice ==
    world_size > 1 =>
        \A w \in Ranks :
            ctx[w].student_gpu >= 0 =>
                /\ ctx[w].current_device = ctx[w].student_gpu
                /\ \A v \in Ranks \ {w} : ctx[w].current_device \notin DevicesOf(v)

====
